---- MODULE Spec2Model ----
(***************************************************************************)
(* Model of src/check-status.js: the status poller that reconciles the     *)
(* incidents of an RSS feed against a JSON state file and posts or edits   *)
(* one Slack message per incident.                                         *)
(*                                                                         *)
(* A narrative (the item's description) is a sequence of tokens; a token   *)
(* is an indivisible piece of text with a character length, so that the    *)
(* character index of a regular-expression match can be computed.          *)
(***************************************************************************)
EXTENDS Integers, Sequences, FiniteSets, TLC

\* ------------------------------------------------------------------ bounds
MaxRuns == 2
MaxFeedLen == 2
MaxLen == 4

\* ------------------------------------------------------------ text tokens
Null == "null"
Missing == "missing"

StrongOpen == "<strong>"
StrongClose == "</strong>"

\* Status words as they can appear in a narrative, in two letter cases.
KeywordTokens == {"Resolved", "Monitoring", "Identified", "Investigating", "resolved"}

\* Tokens whose first and last characters are word characters (\w).
WordTokens == KeywordTokens \cup {"Update", "un"}

Tokens == WordTokens \cup {StrongOpen, StrongClose, " "}

\* Number of characters of a token.
TokLen(t) ==
  CASE t = StrongOpen -> 8
    [] t = StrongClose -> 9
    [] t = "Resolved" -> 8
    [] t = "resolved" -> 8
    [] t = "Monitoring" -> 10
    [] t = "Identified" -> 10
    [] t = "Investigating" -> 13
    [] t = "Update" -> 6
    [] t = "un" -> 2
    [] OTHER -> 1

\* The token folded to lower case (the /i flag of the patterns).
Lower(t) ==
  CASE t = "Resolved" -> "resolved"
    [] t = "Monitoring" -> "monitoring"
    [] t = "Identified" -> "identified"
    [] t = "Investigating" -> "investigating"
    [] OTHER -> t

\* Character index (0-based) at which token i of description d starts.
RECURSIVE CharIndex(_, _)
CharIndex(d, i) == IF i <= 1 THEN 0 ELSE CharIndex(d, i - 1) + TokLen(d[i - 1])

\* ------------------------------------------------- extractCurrentStatus
\* The eight patterns in the order of the statusPatterns array.
statusPatterns ==
  << [strong |-> TRUE,  status |-> "resolved"],
     [strong |-> TRUE,  status |-> "monitoring"],
     [strong |-> TRUE,  status |-> "identified"],
     [strong |-> TRUE,  status |-> "investigating"],
     [strong |-> FALSE, status |-> "resolved"],
     [strong |-> FALSE, status |-> "monitoring"],
     [strong |-> FALSE, status |-> "identified"],
     [strong |-> FALSE, status |-> "investigating"] >>

\* Does pattern p match with its first character at the start of token i?
MatchesAt(p, d, i) ==
  IF p.strong
  THEN /\ i + 2 <= Len(d)
       /\ d[i] = StrongOpen
       /\ Lower(d[i + 1]) = p.status
       /\ d[i + 2] = StrongClose
  ELSE /\ Lower(d[i]) = p.status
       /\ (i > 1 => d[i - 1] \notin WordTokens)
       /\ (i < Len(d) => d[i + 1] \notin WordTokens)

\* regex.exec(description): the leftmost match, or no match.
RegexExec(p, d) ==
  LET hits == {i \in 1..Len(d) : MatchesAt(p, d, i)}
  IN IF hits = {}
     THEN [matched |-> FALSE, index |-> 0]
     ELSE [matched |-> TRUE,
           index |-> CharIndex(d, CHOOSE i \in hits : \A j \in hits : i <= j)]

\* firstMatch starts as {position: Infinity, status: 'unknown'}; 'found' is
\* FALSE while position is Infinity.
RECURSIVE StatusLoop(_, _, _)
StatusLoop(d, k, firstMatch) ==
  IF k > Len(statusPatterns)
  THEN firstMatch
  ELSE LET match == RegexExec(statusPatterns[k], d)
       IN IF match.matched /\ (~firstMatch.found \/ match.index < firstMatch.position)
          THEN StatusLoop(d, k + 1,
                 [found |-> TRUE, position |-> match.index,
                  status |-> statusPatterns[k].status])
          ELSE StatusLoop(d, k + 1, firstMatch)

\* A plausible slip: return at the first pattern of the array that matches.
RECURSIVE FirstPatternWins(_, _)
FirstPatternWins(d, k) ==
  IF k > Len(statusPatterns)
  THEN "unknown"
  ELSE IF RegexExec(statusPatterns[k], d).matched
       THEN statusPatterns[k].status
       ELSE FirstPatternWins(d, k + 1)

extractCurrentStatusPriority(description) == FirstPatternWins(description, 1)

extractCurrentStatus(description) ==
  StatusLoop(description, 1, [found |-> FALSE, position |-> 0, status |-> "unknown"]).status


\* -------------------------------------------------------------- the feed
Guids == {"a", "b"}
Titles == {"t1", "t2"}

\* Three narratives: an opening update, the same status with more detail,
\* and a later update put in front of the opening one.
Investigating1 == <<StrongOpen, "Investigating", StrongClose>>
Investigating2 == <<StrongOpen, "Investigating", StrongClose, " ", "Update">>
ResolvedFirst == <<StrongOpen, "Resolved", StrongClose, " ", StrongOpen, "Investigating", StrongClose>>
Narratives == {Investigating1, Investigating2, ResolvedFirst}

\* Items of the parsed XML document, before the defaults are applied:
\* incident "a" with each narrative and, for its opening narrative, under a
\* second title; incident "b" with its two Investigating narratives; and an
\* item that has none of its elements.
RawItems ==
  {it \in [guid : Guids, title : Titles, description : Narratives,
           pubDate : {"p1"}, link : {"l1"}] :
     \/ it.title = "t1" /\ (it.guid = "a" \/ it.description # ResolvedFirst)
     \/ it.title = "t2" /\ it.guid = "a" /\ it.description = Investigating1}
  \cup {[guid |-> Missing, title |-> Missing, description |-> << >>,
         pubDate |-> Missing, link |-> Missing]}

RECURSIVE SeqsUpTo(_, _)
SeqsUpTo(S, n) ==
  IF n = 0 THEN {<< >>}
  ELSE LET shorter == SeqsUpTo(S, n - 1)
       IN shorter \cup {Append(q, x) : q \in {r \in shorter : Len(r) = n - 1}, x \in S}

Feeds == SeqsUpTo(RawItems, MaxFeedLen)

\* new Date().toISOString() and Date.now() at clock reading t.
ISOString(t) == "T" \o ToString(t)

extractGuid(guid, t) == IF guid # Missing THEN guid ELSE "unknown-" \o ToString(t)

\* The mapping applied to every item by parseRssFeed.
ParseItem(item, t) ==
  [guid |-> extractGuid(item.guid, t),
   title |-> IF item.title # Missing THEN item.title ELSE "Unknown Incident",
   description |-> item.description,
   pubDate |-> IF item.pubDate # Missing THEN item.pubDate ELSE ISOString(t),
   link |-> IF item.link # Missing THEN item.link ELSE "https://status.claude.com"]

parseRssFeed(xmlContent, t) == [i \in 1..Len(xmlContent) |-> ParseItem(xmlContent[i], t)]

\* ------------------------------------------------------- hashDescription
\* A digest into a fixed finite space, computed from the whole narrative,
\* and returned as text (digest('hex')).
HashSpace == 2^16

TokCode(t) ==
  CASE t = StrongOpen -> 1
    [] t = StrongClose -> 2
    [] t = "Resolved" -> 3
    [] t = "resolved" -> 4
    [] t = "Monitoring" -> 5
    [] t = "Identified" -> 6
    [] t = "Investigating" -> 7
    [] t = "Update" -> 8
    [] t = "un" -> 9
    [] OTHER -> 10

RECURSIVE Digest(_, _)
Digest(d, n) == IF n = 0 THEN 7 ELSE (Digest(d, n - 1) * 31 + TokCode(d[n])) % HashSpace

hashDescription(description) == ToString(Digest(description, Len(description)))

\* ------------------------------------------------------- the state store
EmptyStore == << >>

\* A plausible slip: the assignment replaces the whole mapping.
PutAlone(s, k, v) == [x \in {k} |-> v]

Put(s, k, v) == [x \in DOMAIN s \cup {k} |-> IF x = k THEN v ELSE s[x]]

\* ---------------------------------------------------------- JSON text
\* The members of an entry, in the order of the object literal.
EntryFields ==
  <<"title", "description_hash", "status", "first_seen", "last_updated",
    "slack_message_ts", "link">>

\* A scalar as JSON text: a string in quotes, or the literal null.
EncodeValue(v) ==
  IF v = Null THEN [quoted |-> FALSE, text |-> "null"] ELSE [quoted |-> TRUE, text |-> v]

DecodeValue(j) == IF j.quoted THEN j.text ELSE Null

RECURSIVE SetToSeq(_)
SetToSeq(S) ==
  IF S = {} THEN << >>
  ELSE LET x == CHOOSE y \in S : TRUE IN <<x>> \o SetToSeq(S \ {x})

\* A plausible slip: members whose value is null are left out of the text
\* (what JSON.stringify does with undefined).
JSONStringifyDropsNull(s) ==
  LET keys == SetToSeq(DOMAIN s)
      all(e) == [i \in 1..Len(EntryFields) |->
                   <<EntryFields[i], EncodeValue(e[EntryFields[i]])>>]
  IN [i \in 1..Len(keys) |->
        [key |-> keys[i], value |-> SelectSeq(all(s[keys[i]]), LAMBDA m : m[2].quoted)]]

\* JSON.stringify(state, null, 2): the text of the mapping, one member per
\* key, each an object of name/value members.
JSONStringify(s) ==
  LET keys == SetToSeq(DOMAIN s)
  IN [i \in 1..Len(keys) |->
        [key |-> keys[i],
         value |-> [j \in 1..Len(EntryFields) |->
                      <<EntryFields[j], EncodeValue(s[keys[i]][EntryFields[j]])>>]]]

\* JSON.parse(content): the mapping the text denotes.
JSONParse(text) ==
  [k \in {text[i].key : i \in 1..Len(text)} |->
     LET members == text[CHOOSE i \in 1..Len(text) : text[i].key = k].value
     IN [n \in {members[j][1] : j \in 1..Len(members)} |->
           DecodeValue(members[CHOOSE j \in 1..Len(members) : members[j][1] = n][2])]]

\* A plausible slip: no try/catch around a parser that returns what it could
\* read of a damaged file.
loadStateNoCatch(f) == JSONParse(f.content)

\* loadState: the parsed file, or {} when reading or parsing throws.
loadState(f) == IF f.ok THEN JSONParse(f.content) ELSE EmptyStore

\* saveState: the file after writeFile(STATE_FILE, JSON.stringify(state, null, 2)).
saveState(s) == [ok |-> TRUE, content |-> JSONStringify(s)]

\* A plausible slip: a placeholder is stored when no message id came back.
NewEntryPlaceholderTs(item, descriptionHash, currentStatus, messageTs, t) ==
  [title |-> item.title,
   description_hash |-> descriptionHash,
   status |-> currentStatus,
   first_seen |-> item.pubDate,
   last_updated |-> ISOString(t),
   slack_message_ts |-> IF messageTs = Null THEN "0" ELSE messageTs,
   link |-> item.link]

\* The object literals assigned to state[incidentId] for a new incident.
NewEntry(item, descriptionHash, currentStatus, messageTs, t) ==
  [title |-> item.title,
   description_hash |-> descriptionHash,
   status |-> currentStatus,
   first_seen |-> item.pubDate,
   last_updated |-> ISOString(t),
   slack_message_ts |-> messageTs,
   link |-> item.link]

\* A plausible slip: the update forgets status: currentStatus.
UpdatedEntryKeepsStatus(existing, descriptionHash, currentStatus, t) ==
  [existing EXCEPT !.description_hash = descriptionHash,
                   !.last_updated = ISOString(t)]

\* A plausible slip: the update writes the literal of the suppressed branch,
\* with slack_message_ts: null, over the spread of existing.
UpdatedEntryNullTs(existing, descriptionHash, currentStatus, t) ==
  [existing EXCEPT !.description_hash = descriptionHash,
                   !.status = currentStatus,
                   !.last_updated = ISOString(t),
                   !.slack_message_ts = Null]

\* A plausible slip: the update also stamps first_seen.
UpdatedEntryRestamped(existing, descriptionHash, currentStatus, t) ==
  [existing EXCEPT !.description_hash = descriptionHash,
                   !.status = currentStatus,
                   !.last_updated = ISOString(t),
                   !.first_seen = ISOString(t)]

\* { ...existing, description_hash, status, last_updated }
UpdatedEntry(existing, descriptionHash, currentStatus, t) ==
  [existing EXCEPT !.description_hash = descriptionHash,
                   !.status = currentStatus,
                   !.last_updated = ISOString(t)]

\* A plausible slip: the test forgets isFirstRun.
SuppressAnyRun(first, n) == n > 0

\* A plausible slip: an off-by-one in the count of announcements.
SuppressAfterTwo(first, n) == first /\ n > 1

\* isFirstRun && newCount > 0
Suppress(first, n) == first /\ n > 0

\* A plausible slip: the test is left out, every update is sent to Slack.
HasMessageAlways(existing) == TRUE

\* A plausible slip: the comparison has the stored hash on both sides.
HashNeverChanged(existing, descriptionHash) ==
  existing.description_hash # existing.description_hash

\* A plausible slip: the comparison is left out, every known item is updated.
HashAlwaysChanged(existing, descriptionHash) == TRUE

\* existing.description_hash !== descriptionHash
HashChanged(existing, descriptionHash) == existing.description_hash # descriptionHash

\* A plausible slip: the test is inverted.
HasNoMessage(existing) == existing.slack_message_ts = Null

\* if (existing.slack_message_ts)
HasMessage(existing) == existing.slack_message_ts # Null

\* ---------------------------------------------------------- the notifier
\* Outcome of one call: did it reach the Slack API, did it throw, and the
\* value it returned.  hasSlack: the WebClient was built (SLACK_BOT_TOKEN
\* set); channelId: SLACK_CHANNEL_ID is set; apiOk: the API call returned
\* a result with ok; resultTs: the ts of that result.
\* A plausible slip: the guard forgets SLACK_CHANNEL_ID.
postNewIncidentTokenOnly(hasSlack, channelId, apiOk, resultTs) ==
  IF ~hasSlack
  THEN [api |-> FALSE, threw |-> FALSE, ret |-> Null]
  ELSE IF ~apiOk
       THEN [api |-> TRUE, threw |-> TRUE, ret |-> Null]
       ELSE [api |-> TRUE, threw |-> FALSE, ret |-> resultTs]

postNewIncident(hasSlack, channelId, apiOk, resultTs) ==
  IF ~hasSlack \/ ~channelId
  THEN [api |-> FALSE, threw |-> FALSE, ret |-> Null]
  ELSE IF ~apiOk
       THEN [api |-> TRUE, threw |-> TRUE, ret |-> Null]
       ELSE [api |-> TRUE, threw |-> FALSE, ret |-> resultTs]

updateIncidentMessage(hasSlack, channelId, apiOk, messageTs, resultTs) ==
  IF ~hasSlack \/ ~channelId
  THEN [api |-> FALSE, threw |-> FALSE, ret |-> messageTs]
  ELSE IF ~apiOk
       THEN [api |-> TRUE, threw |-> TRUE, ret |-> Null]
       ELSE [api |-> TRUE, threw |-> FALSE, ret |-> resultTs]

\* ------------------------------------------------------------- variables
VARIABLES
  file,          \* .cache/incidents.json: [ok, content]; content is the JSON text,
                 \*          ok is FALSE when the file is absent or unparseable
  pc,            \* "idle", "loop", "done" (exit 0) or "aborted" (exit 1)
  now,           \* clock reading of the current process; one reading per run
  slack,         \* module constant slack is not null (SLACK_BOT_TOKEN set)
  channel,       \* module constant SLACK_CHANNEL_ID is set
  xml,           \* the feed document fetched by the current run
  feedItems,     \* processIncidents: the parsed feed
  state,         \* processIncidents: the loaded, then mutated, store
  isFirstRun,    \* processIncidents: Object.keys(state).length === 0 at load
  newCount,      \* processIncidents
  updateCount,   \* processIncidents
  idx,           \* position of the for-of loop in feedItems
  nextTs,        \* Slack: number of messages posted to the channel so far
  calls,         \* history: the notifier calls of the current run, in order
  loaded,        \* history: the store as loaded by the current run
  fileAtStart,   \* history: the file when the current run started
  posted,        \* history: guid of every message chat.postMessage created, over all runs
  rerun,         \* history: this run has the feed of the run before, which completed,
                 \*          and starts from the file that run saved
  narrative,     \* input of the status extractor
  result         \* output of the status extractor

procVars == <<pc, now, slack, channel, xml, feedItems, state, isFirstRun, newCount, updateCount, idx>>
histVars == <<calls, loaded, fileAtStart, posted, rerun>>
extractVars == <<narrative, result>>
vars == <<file, procVars, nextTs, histVars, extractVars>>

NoFile == [ok |-> FALSE, content |-> EmptyStore]

Init ==
  /\ file = NoFile
  /\ pc = "idle"
  /\ now = 0
  /\ slack = FALSE
  /\ channel = FALSE
  /\ xml = << >>
  /\ feedItems = << >>
  /\ state = EmptyStore
  /\ isFirstRun = FALSE
  /\ newCount = 0
  /\ updateCount = 0
  /\ idx = 1
  /\ nextTs = 0
  /\ calls = << >>
  /\ loaded = EmptyStore
  /\ fileAtStart = NoFile
  /\ posted = << >>
  /\ rerun = FALSE
  /\ narrative = << >>
  /\ result = "unknown"

Stopped == pc \in {"idle", "done", "aborted"}

\* A new process starts: module initialisation and main() up to the loop.
BeginRun(hasSlack, channelId) ==
  /\ Stopped
  /\ now < MaxRuns
  /\ now' = now + 1
  /\ slack' = hasSlack
  /\ channel' = channelId
  /\ newCount' = 0
  /\ updateCount' = 0
  /\ idx' = 1
  /\ calls' = << >>
  /\ fileAtStart' = file
  /\ UNCHANGED <<file, nextTs, posted, extractVars>>

\* fetchRssFeed throws (non-2xx, network) or parser.parse throws.
FetchFails ==
  \E hasSlack \in BOOLEAN, channelId \in BOOLEAN :
    /\ BeginRun(hasSlack, channelId)
    /\ xml' = << >>
    /\ feedItems' = << >>
    /\ state' = EmptyStore
    /\ loaded' = EmptyStore
    /\ isFirstRun' = FALSE
    /\ rerun' = FALSE
    /\ pc' = "aborted"

\* Steps 1 and 2 of processIncidents: fetch, parse, load.
StartRun ==
  \E hasSlack \in BOOLEAN, channelId \in BOOLEAN, xmlContent \in Feeds :
    /\ BeginRun(hasSlack, channelId)
    /\ xml' = xmlContent
    /\ feedItems' = parseRssFeed(xmlContent, now')
    /\ state' = loadState(file)
    /\ loaded' = loadState(file)
    /\ isFirstRun' = (DOMAIN loadState(file) = {})
    /\ rerun' = (pc = "done" /\ file.ok /\ xmlContent = xml)
    /\ pc' = "loop"

Call(op, id, arg, out) ==
  [op |-> op, id |-> id, arg |-> arg, ret |-> out.ret, threw |-> out.threw, api |-> out.api]

\* One iteration of the for-of loop of processIncidents.
ProcessItem ==
  /\ pc = "loop"
  /\ idx <= Len(feedItems)
  /\ LET item == feedItems[idx]
         incidentId == item.guid
         descriptionHash == hashDescription(item.description)
         currentStatus == extractCurrentStatus(item.description)
     IN IF incidentId \notin DOMAIN state
        THEN IF Suppress(isFirstRun, newCount)
             THEN /\ state' = Put(state, incidentId,
                                  NewEntry(item, descriptionHash, currentStatus, Null, now))
                  /\ idx' = idx + 1
                  /\ UNCHANGED <<pc, newCount, updateCount, nextTs, calls, posted>>
             ELSE \E apiOk \in BOOLEAN :
                    LET out == postNewIncident(slack, channel, apiOk, "ts" \o ToString(nextTs + 1))
                    IN /\ calls' = Append(calls, Call("send", incidentId, Null, out))
                       /\ posted' = IF out.api /\ ~out.threw
                                     THEN Append(posted, incidentId) ELSE posted
                       /\ nextTs' = IF out.api /\ ~out.threw THEN nextTs + 1 ELSE nextTs
                       /\ IF out.threw
                          THEN /\ pc' = "aborted"
                               /\ UNCHANGED <<state, newCount, updateCount, idx>>
                          ELSE /\ state' = Put(state, incidentId,
                                               NewEntry(item, descriptionHash, currentStatus,
                                                        out.ret, now))
                               /\ newCount' = newCount + 1
                               /\ idx' = idx + 1
                               /\ UNCHANGED <<pc, updateCount>>
        ELSE LET existing == state[incidentId]
             IN IF HashChanged(existing, descriptionHash)
                THEN \E apiOk \in BOOLEAN, resultTs \in {existing.slack_message_ts, "ts-new"} :
                       LET called == HasMessage(existing)
                           out == updateIncidentMessage(slack, channel, apiOk,
                                                        existing.slack_message_ts, resultTs)
                       IN /\ calls' = IF called
                                      THEN Append(calls, Call("edit", incidentId,
                                                              existing.slack_message_ts, out))
                                      ELSE calls
                          /\ IF called /\ out.threw
                             THEN /\ pc' = "aborted"
                                  /\ UNCHANGED <<state, updateCount, idx>>
                             ELSE /\ state' = Put(state, incidentId,
                                                  UpdatedEntry(existing, descriptionHash,
                                                               currentStatus, now))
                                  /\ updateCount' = updateCount + 1
                                  /\ idx' = idx + 1
                                  /\ UNCHANGED pc
                          /\ UNCHANGED <<newCount, nextTs, posted>>
                ELSE /\ idx' = idx + 1
                     /\ UNCHANGED <<pc, state, newCount, updateCount, nextTs, calls, posted>>
  /\ UNCHANGED <<file, now, slack, channel, xml, feedItems, isFirstRun, loaded, fileAtStart,
                 rerun, extractVars>>

\* A plausible slip: saveState is called inside the loop body.
SaveStateInLoop ==
  /\ pc = "loop"
  /\ file # saveState(state)
  /\ file' = saveState(state)
  /\ pc' = IF idx > Len(feedItems) THEN "done" ELSE "loop"
  /\ UNCHANGED <<now, slack, channel, xml, feedItems, state, isFirstRun, newCount,
                 updateCount, idx, nextTs, histVars, extractVars>>

\* Step 4: saveState(state), then main() logs Done and the process exits 0.
SaveState ==
  /\ pc = "loop"
  /\ idx > Len(feedItems)
  /\ file' = saveState(state)
  /\ pc' = "done"
  /\ UNCHANGED <<now, slack, channel, xml, feedItems, state, isFirstRun, newCount,
                 updateCount, idx, nextTs, histVars, extractVars>>

\* Between runs (the process has exited) the cache file is evicted (absent)
\* or damaged (its text is still there, but JSON.parse throws on it).
LoseFile ==
  /\ pc \in {"done", "aborted"}
  /\ file.ok
  /\ \E damaged \in BOOLEAN :
       file' = IF damaged THEN [ok |-> FALSE, content |-> file.content] ELSE NoFile
  /\ pc' = "idle"
  /\ UNCHANGED <<now, slack, channel, xml, feedItems, state, isFirstRun, newCount,
                 updateCount, idx, nextTs, histVars, extractVars>>

Next == FetchFails \/ StartRun \/ ProcessItem \/ SaveState \/ LoseFile

Spec == Init /\ [][Next]_vars


\* ------------------------------------------- the status extractor alone
\* The example of the specification: Investigating textually before Resolved.
InvestigatingThenResolved ==
  <<StrongOpen, "Investigating", StrongClose, " ", StrongOpen, "Resolved", StrongClose>>

InputNarratives == SeqsUpTo(Tokens, MaxLen) \cup Narratives \cup {InvestigatingThenResolved}

InitExtract ==
  /\ file = NoFile
  /\ pc = "input"
  /\ now = 0
  /\ slack = FALSE
  /\ channel = FALSE
  /\ xml = << >>
  /\ feedItems = << >>
  /\ state = EmptyStore
  /\ isFirstRun = FALSE
  /\ newCount = 0
  /\ updateCount = 0
  /\ idx = 1
  /\ nextTs = 0
  /\ calls = << >>
  /\ loaded = EmptyStore
  /\ fileAtStart = NoFile
  /\ posted = << >>
  /\ rerun = FALSE
  /\ narrative \in InputNarratives
  /\ result = "unknown"

Extract ==
  /\ pc = "input"
  /\ result' = extractCurrentStatus(narrative)
  /\ pc' = "extracted"
  /\ UNCHANGED <<file, now, slack, channel, xml, feedItems, state, isFirstRun, newCount,
                 updateCount, idx, nextTs, histVars, narrative>>

NextExtract == Extract

SpecExtract == InitExtract /\ [][NextExtract]_vars

\* ================================================================ claims
\* Helpers for reading the call log of the current run.
CallsFor(op, g) == {k \in 1..Len(calls) : calls[k].op = op /\ calls[k].id = g}
FeedGuids == {feedItems[i].guid : i \in 1..Len(feedItems)}
Running == pc \in {"loop", "done", "aborted"}
\* The mapping a reader of the file gets.
Stored == loadState(file)

\* C1: over any sequence of runs, no incident identifier has a message posted
\* for it more than once (postNewIncident creates at most one message per
\* guid).
C1_AtMostOnePostPerIncident ==
  \A i, j \in 1..Len(posted) : posted[i] = posted[j] => i = j

\* C2: a run that repeats the feed of the completed run before it, against
\* the file that run saved, makes no notifier call and saves the same file.
C2_Idempotent ==
  (rerun /\ Running) => /\ calls = << >>
                        /\ (pc = "done" => file = fileAtStart)

\* C3: a run that loaded an empty store calls postNewIncident at most once,
\* as its first notifier call and for the first item of the feed; when such a
\* run completes on a feed of at least one item it has made that call, every
\* guid of the feed is in the saved store, and every one but the first has a
\* null slack_message_ts.
C3_FirstRunSuppression ==
  (Running /\ isFirstRun) =>
     LET sendCalls == {k \in 1..Len(calls) : calls[k].op = "send"}
     IN /\ sendCalls \subseteq {1}
        /\ \A k \in sendCalls : calls[k].id = feedItems[1].guid
        /\ (pc = "done" /\ Len(feedItems) >= 1) =>
              /\ Cardinality(sendCalls) = 1
              /\ file.ok
              /\ \A g \in FeedGuids :
                   /\ g \in DOMAIN Stored
                   /\ (g # feedItems[1].guid =>
                         Stored[g].slack_message_ts = Null)

C3_Witness ==
  /\ pc = "done"
  /\ isFirstRun
  /\ Len(feedItems) = 2
  /\ feedItems[1].guid # feedItems[2].guid
  /\ file.ok
  /\ Stored[feedItems[1].guid].slack_message_ts # Null
  /\ Stored[feedItems[2].guid].slack_message_ts = Null

\* The items of the feed whose guid was loaded with a message id and whose
\* fingerprint differs from the loaded one.
ChangedAnnounced ==
  {i \in 1..Len(feedItems) :
     /\ feedItems[i].guid \in DOMAIN loaded
     /\ loaded[feedItems[i].guid].slack_message_ts # Null
     /\ loaded[feedItems[i].guid].description_hash # hashDescription(feedItems[i].description)}

Occurrences(g) == {i \in 1..Len(feedItems) : feedItems[i].guid = g}

\* C4 as stated: in a completed run, for every such item, updateIncidentMessage
\* is called exactly once for its guid, with the loaded message id, and
\* postNewIncident is never called for it.
C4_EditExactlyOnce ==
  pc = "done" =>
    \A i \in ChangedAnnounced :
      LET g == feedItems[i].guid
      IN /\ Cardinality(CallsFor("edit", g)) = 1
         /\ \A k \in CallsFor("edit", g) : calls[k].arg = loaded[g].slack_message_ts
         /\ CallsFor("send", g) = {}

\* C4 amended: in a completed run, for every such item, updateIncidentMessage
\* is called for its guid at least once, and exactly once when the guid occurs
\* once in the feed; every such call is given the loaded message id; and
\* postNewIncident is never called for it.
C4_EditNotCreate ==
  pc = "done" =>
    \A i \in ChangedAnnounced :
      LET g == feedItems[i].guid
      IN /\ CallsFor("edit", g) # {}
         /\ (Cardinality(Occurrences(g)) = 1 => Cardinality(CallsFor("edit", g)) = 1)
         /\ \A k \in CallsFor("edit", g) : calls[k].arg = loaded[g].slack_message_ts
         /\ CallsFor("send", g) = {}

\* An edit happened although the extracted status is the stored one.
C4_Witness ==
  /\ pc = "done"
  /\ \E i \in ChangedAnnounced :
       /\ loaded[feedItems[i].guid].status = extractCurrentStatus(feedItems[i].description)
       /\ Cardinality(CallsFor("edit", feedItems[i].guid)) = 1


\* The loop is about to process an item whose guid has a stored entry with a
\* null slack_message_ts and another fingerprint.
AtSuppressedChange ==
  /\ pc = "loop"
  /\ idx <= Len(feedItems)
  /\ feedItems[idx].guid \in DOMAIN state
  /\ state[feedItems[idx].guid].slack_message_ts = Null
  /\ state[feedItems[idx].guid].description_hash # hashDescription(feedItems[idx].description)

\* C5: processing an item whose stored entry has a null slack_message_ts and a
\* different fingerprint makes no notifier call and replaces the stored
\* fingerprint and status by those of the item's narrative; and no call of a
\* run is ever for a guid that was loaded with a null slack_message_ts.
C5_SuppressedEntryUpdate ==
  /\ [][AtSuppressedChange =>
          /\ calls' = calls
          /\ pc' = "loop"
          /\ idx' = idx + 1
          /\ state'[feedItems[idx].guid].description_hash
               = hashDescription(feedItems[idx].description)
          /\ state'[feedItems[idx].guid].status
               = extractCurrentStatus(feedItems[idx].description)
          /\ state'[feedItems[idx].guid].slack_message_ts = Null]_vars
  /\ [](\A k \in 1..Len(calls) :
          calls[k].id \in DOMAIN loaded => loaded[calls[k].id].slack_message_ts # Null)

\* A completed run changed the status of an entry loaded without a message,
\* and called nothing for it.
C5_Witness ==
  /\ pc = "done"
  /\ \E g \in DOMAIN loaded :
       /\ loaded[g].slack_message_ts = Null
       /\ Stored[g].description_hash # loaded[g].description_hash
       /\ Stored[g].status # loaded[g].status
       /\ CallsFor("send", g) = {} /\ CallsFor("edit", g) = {}

\* C6: while a run is in its loop, and after it aborted (fetch or parse
\* failure, or a notifier call that threw), the file is the one the run
\* started with.
C6_NoPartialPersistence == pc \in {"loop", "aborted"} => file = fileAtStart

\* A run aborted on its second notifier call, after changing the store in
\* memory, with a readable file on disk.
C6_Witness ==
  /\ pc = "aborted"
  /\ Len(calls) = 2
  /\ state # loaded
  /\ file.ok
  /\ Stored = loaded

\* C7: a slack_message_ts that is not null in the file is still not null in
\* the file after any step that leaves the file readable, and every
\* updateIncidentMessage call was given the slack_message_ts stored for its
\* guid, which is not null.
C7_MessageIdKept ==
  /\ [][(file.ok /\ file'.ok) =>
          \A g \in DOMAIN Stored :
            Stored[g].slack_message_ts # Null =>
              /\ g \in DOMAIN Stored'
              /\ Stored'[g].slack_message_ts # Null]_vars
  /\ [](\A k \in 1..Len(calls) :
          (calls[k].op = "edit" /\ Running) =>
             /\ calls[k].arg # Null
             /\ calls[k].id \in DOMAIN state
             /\ calls[k].arg = state[calls[k].id].slack_message_ts)

\* A completed run edited the message of an entry it had loaded.
C7_Witness ==
  /\ pc = "done"
  /\ \E g \in DOMAIN loaded :
       /\ loaded[g].slack_message_ts # Null
       /\ CallsFor("edit", g) # {}
       /\ Stored[g].slack_message_ts = loaded[g].slack_message_ts
       /\ Stored[g].description_hash # loaded[g].description_hash

\* C8: after a completed run, every guid that was in the store at load is in
\* the saved store.
C8_NeverDeleted == pc = "done" => (file.ok /\ DOMAIN loaded \subseteq DOMAIN Stored)

\* A completed run kept a guid that its feed no longer had, and added one.
C8_Witness ==
  /\ pc = "done"
  /\ \E g \in DOMAIN loaded : g \notin FeedGuids /\ g \in DOMAIN Stored
  /\ \E g \in FeedGuids : g \notin DOMAIN loaded

\* C9 as stated: when the token or the channel id is missing, no call of the
\* run reaches the Slack API and every call returns null.
C9_DryRunReturnsNull ==
  (Running /\ ~(slack /\ channel)) =>
     \A k \in 1..Len(calls) : ~calls[k].api /\ calls[k].ret = Null

\* C9 amended: when the token or the channel id is missing, no call reaches
\* the Slack API and none throws; postNewIncident returns null and
\* updateIncidentMessage returns the message id it was given.
C9_DryRun ==
  (Running /\ ~(slack /\ channel)) =>
     \A k \in 1..Len(calls) :
       /\ ~calls[k].api
       /\ ~calls[k].threw
       /\ (calls[k].op = "send" => calls[k].ret = Null)
       /\ (calls[k].op = "edit" => calls[k].ret = calls[k].arg)

\* With a token but no channel id, a run both posted-in-intent and
\* edited-in-intent.
C9_Witness ==
  /\ pc = "done"
  /\ slack /\ ~channel
  /\ \E k \in 1..Len(calls) : calls[k].op = "send"
  /\ \E k \in 1..Len(calls) : calls[k].op = "edit" /\ calls[k].arg # Null

\* Token i of d is a status word standing as a whole word.
KeywordAt(d, i) ==
  /\ d[i] \in KeywordTokens
  /\ (i > 1 => d[i - 1] \notin WordTokens)
  /\ (i < Len(d) => d[i + 1] \notin WordTokens)

\* The status of the leftmost status word of d, or unknown when it has none.
EarliestKeyword(d) ==
  LET occ == {i \in 1..Len(d) : KeywordAt(d, i)}
  IN IF occ = {} THEN "unknown"
     ELSE Lower(d[CHOOSE i \in occ : \A j \in occ : i <= j])

\* C10: extractCurrentStatus returns the status of the status word (Resolved,
\* Monitoring, Identified, Investigating, in any letter case, as a whole word)
\* that occurs leftmost in the narrative, and unknown exactly when the
\* narrative has no such word.
C10_EarliestKeywordWins ==
  pc = "extracted" =>
     /\ result = EarliestKeyword(narrative)
     /\ (result = "unknown" <=> \A i \in 1..Len(narrative) : ~KeywordAt(narrative, i))

\* Investigating, then Resolved in emphasis markup: investigating.
C10_Witness ==
  /\ pc = "extracted"
  /\ narrative = InvestigatingThenResolved
  /\ result = "investigating"


\* C11: after a completed run, loadState of the file that saveState wrote is
\* the mapping the run saved: the same keys, and for each key the same value
\* of every field, a null slack_message_ts included.
C11_SaveLoadRoundTrip ==
  pc = "done" =>
     /\ file.ok
     /\ DOMAIN loadState(file) = DOMAIN state
     /\ \A g \in DOMAIN state :
          /\ DOMAIN loadState(file)[g] = DOMAIN state[g]
          /\ \A n \in DOMAIN state[g] : loadState(file)[g][n] = state[g][n]

\* A saved store with an announced entry and a suppressed one.
C11_Witness ==
  /\ pc = "done"
  /\ \E g \in DOMAIN state : state[g].slack_message_ts = Null
  /\ \E g \in DOMAIN state : state[g].slack_message_ts # Null
  /\ loadState(file) = state


\* The last updateIncidentMessage call of the run for guid g.
LastEdit(g) == CHOOSE k \in CallsFor("edit", g) : \A j \in CallsFor("edit", g) : j <= k

\* C12: after a completed run, an entry that was loaded with a message id and
\* was edited in the run has, as its slack_message_ts, the id the last
\* updateIncidentMessage call for it returned.
C12_EditResultStored ==
  pc = "done" =>
    \A g \in DOMAIN loaded :
      (loaded[g].slack_message_ts # Null /\ CallsFor("edit", g) # {}) =>
         Stored[g].slack_message_ts = calls[LastEdit(g)].ret

\* C13: with the file kept between runs, a guid in the store stays in the
\* store with a slack_message_ts that is null if and only if it was null
\* before; a guid added by a run has a null slack_message_ts or the id a
\* postNewIncident call of that run returned for it; and no call of a run is
\* for a guid that was loaded with a null slack_message_ts.
C13_PerIncidentStateMachine ==
  /\ [][(file.ok /\ file'.ok) =>
          \A g \in DOMAIN Stored :
            /\ g \in DOMAIN Stored'
            /\ (Stored[g].slack_message_ts = Null <=> Stored'[g].slack_message_ts = Null)]_vars
  /\ [](Running =>
          /\ \A g \in DOMAIN state \ DOMAIN loaded :
               \/ state[g].slack_message_ts = Null
               \/ \E k \in CallsFor("send", g) : calls[k].ret = state[g].slack_message_ts
          /\ \A g \in DOMAIN loaded :
               loaded[g].slack_message_ts = Null =>
                 /\ CallsFor("send", g) = {} /\ CallsFor("edit", g) = {}
                 /\ state[g].slack_message_ts = Null)

\* A completed run saw new narratives for an announced and for a suppressed
\* guid: it edited the first and called nothing for the second.
C13_Witness ==
  /\ pc = "done"
  /\ \E g \in DOMAIN loaded, h \in DOMAIN loaded :
       /\ loaded[g].slack_message_ts = Null
       /\ Stored[g].description_hash # loaded[g].description_hash
       /\ Stored[g].slack_message_ts = Null
       /\ loaded[h].slack_message_ts # Null
       /\ CallsFor("edit", h) # {}
       /\ Len(calls) = 1

\* C14: isFirstRun is the emptiness of the store at load for the whole run;
\* in a completed run that loaded a store that was not empty, every guid of
\* the feed that was not loaded has exactly one postNewIncident call and is
\* saved with the id that call returned.
C14_NewIncidentsAnnounced ==
  Running =>
    /\ (pc = "aborted" /\ xml = << >>) \/ (isFirstRun <=> DOMAIN loaded = {})
    /\ (pc = "done" /\ DOMAIN loaded # {}) =>
          \A g \in FeedGuids \ DOMAIN loaded :
            /\ Cardinality(CallsFor("send", g)) = 1
            /\ \A k \in CallsFor("send", g) : Stored[g].slack_message_ts = calls[k].ret

\* A completed run that loaded a store posted two new incidents.
C14_Witness ==
  /\ pc = "done"
  /\ DOMAIN loaded # {}
  /\ Len(calls) = 2
  /\ calls[1].op = "send" /\ calls[2].op = "send"
  /\ calls[1].id # calls[2].id
  /\ calls[1].ret # Null /\ calls[2].ret # Null
  /\ Stored[calls[2].id].slack_message_ts = calls[2].ret

\* The loop is about to process an item whose guid has a stored entry.
AtExisting ==
  /\ pc = "loop"
  /\ idx <= Len(feedItems)
  /\ feedItems[idx].guid \in DOMAIN state

\* C15: a loop step for an item whose guid has a stored entry leaves every
\* other entry as it is; when the fingerprint differs and the step does not
\* throw it leaves the entry's first_seen, title, link and slack_message_ts as
\* stored and sets last_updated to the time of the run; when the fingerprint
\* is the same it leaves the entry as it is.
C15_UpdateFrame ==
  [][AtExisting =>
       LET g == feedItems[idx].guid
       IN /\ DOMAIN state' = DOMAIN state
          /\ \A h \in DOMAIN state \ {g} : state'[h] = state[h]
          /\ state'[g].first_seen = state[g].first_seen
          /\ state'[g].title = state[g].title
          /\ state'[g].link = state[g].link
          /\ state'[g].slack_message_ts = state[g].slack_message_ts
          /\ IF state[g].description_hash # hashDescription(feedItems[idx].description)
             THEN pc' = "loop" => state'[g].last_updated = ISOString(now)
             ELSE state'[g] = state[g]]_vars

\* A completed run updated an entry from an item with another title: the
\* stored title is still the old one.
C15_Witness ==
  /\ pc = "done"
  /\ \E i \in 1..Len(feedItems) :
       LET g == feedItems[i].guid
       IN /\ g \in DOMAIN loaded
          /\ Stored[g].description_hash # loaded[g].description_hash
          /\ Stored[g].last_updated # loaded[g].last_updated
          /\ Stored[g].first_seen = loaded[g].first_seen
          /\ Stored[g].title = loaded[g].title
          /\ feedItems[i].title # loaded[g].title


\* The calls of the run, in order, are calls for items of the feed at strictly
\* increasing positions below position n.
InFeedOrder(n) ==
  \E f \in [1..Len(calls) -> 1..Len(feedItems)] :
    /\ \A k \in 1..Len(calls) : f[k] <= n /\ calls[k].id = feedItems[f[k]].guid
    /\ \A j, k \in 1..Len(calls) : j < k => f[j] < f[k]

\* C16: a step makes at most one notifier call, for the item the loop is at,
\* and leaves the file alone; the calls made so far are for items at
\* increasing positions of the feed, none beyond the loop position; the file
\* is written in one step, after the loop has passed the last item, and no
\* call follows it in the run.
C16_SequentialCalls ==
  /\ [][calls' # calls /\ calls' # << >> =>
          /\ pc = "loop" /\ idx <= Len(feedItems)
          /\ Len(calls') = Len(calls) + 1
          /\ SubSeq(calls', 1, Len(calls)) = calls
          /\ calls'[Len(calls')].id = feedItems[idx].guid
          /\ file' = file]_vars
  /\ [][file' # file /\ file'.ok =>
          /\ pc = "loop" /\ idx > Len(feedItems)
          /\ pc' = "done"
          /\ calls' = calls]_vars
  /\ [](Running /\ calls # << >> =>
          InFeedOrder(IF pc = "aborted" THEN idx ELSE idx - 1))
  /\ [][pc = "done" => calls' = calls \/ calls' = << >>]_vars

\* A completed run made two calls, one per item, and then saved.
C16_Witness ==
  /\ pc = "done"
  /\ Len(calls) = 2
  /\ calls[1].id = feedItems[1].guid
  /\ calls[2].id = feedItems[2].guid
  /\ calls[1].op = "send" /\ calls[2].op = "edit"
  /\ file # fileAtStart

\* The run got past fetchRssFeed and parseRssFeed.
PastFetch == Running /\ ~(pc = "aborted" /\ xml = << >>)

\* C17: a run that finds the file absent or unparseable loads the empty
\* mapping and goes on as a first run: it calls postNewIncident at most once,
\* for the first item of the feed, and when it completes every other guid of
\* the feed is saved with a null slack_message_ts.
C17_BadFileIsFirstRun ==
  (PastFetch /\ ~fileAtStart.ok) =>
     /\ DOMAIN loaded = {}
     /\ isFirstRun
     /\ \A k \in 1..Len(calls) :
          calls[k].op = "send" => k = 1 /\ calls[k].id = feedItems[1].guid
     /\ (pc = "done" /\ Len(feedItems) >= 1) =>
          /\ CallsFor("send", feedItems[1].guid) = {1}
          /\ \A g \in FeedGuids \ {feedItems[1].guid} :
               g \in DOMAIN Stored /\ Stored[g].slack_message_ts = Null

\* A run that found a damaged file left by an earlier run completed as a
\* first run over two incidents.
C17_Witness ==
  /\ pc = "done"
  /\ ~fileAtStart.ok
  /\ fileAtStart.content # << >>
  /\ Len(feedItems) = 2
  /\ feedItems[1].guid # feedItems[2].guid
  /\ Len(calls) = 1
  /\ Stored[feedItems[2].guid].slack_message_ts = Null

\* The last position of guid g in the feed.
LastOccurrence(g) == CHOOSE i \in Occurrences(g) : \A j \in Occurrences(g) : j <= i

\* C18: after a completed run every guid of the feed is in the saved store
\* with the fingerprint and the status of the narrative of its last item in
\* the feed.
C18_StoreMatchesFeed ==
  pc = "done" =>
    \A g \in FeedGuids :
      /\ g \in DOMAIN Stored
      /\ Stored[g].description_hash
           = hashDescription(feedItems[LastOccurrence(g)].description)
      /\ Stored[g].status = extractCurrentStatus(feedItems[LastOccurrence(g)].description)

\* A guid occurred twice, with narratives of different status, and was known.
C18_Witness ==
  /\ pc = "done"
  /\ Len(feedItems) = 2
  /\ feedItems[1].guid = feedItems[2].guid
  /\ feedItems[1].guid \in DOMAIN loaded
  /\ extractCurrentStatus(feedItems[1].description)
       # extractCurrentStatus(feedItems[2].description)
  /\ Stored[feedItems[2].guid].status = extractCurrentStatus(feedItems[2].description)
  /\ loaded[feedItems[2].guid].status # Stored[feedItems[2].guid].status

\* C19: a loop step for an item whose guid has a stored entry with the item's
\* fingerprint changes neither the store nor the call log, whatever the item's
\* title, link and publish date; so after a completed run a loaded entry whose
\* items in the feed all have its fingerprint is saved as loaded, with no call
\* made for it.
C19_SameFingerprintNoRefresh ==
  /\ [][(AtExisting /\ state[feedItems[idx].guid].description_hash
                         = hashDescription(feedItems[idx].description)) =>
          /\ state' = state
          /\ calls' = calls
          /\ pc' = "loop"
          /\ idx' = idx + 1]_vars
  /\ [](pc = "done" =>
          \A g \in DOMAIN loaded :
            (\A i \in Occurrences(g) :
               loaded[g].description_hash = hashDescription(feedItems[i].description)) =>
               /\ Stored[g] = loaded[g]
               /\ CallsFor("send", g) = {} /\ CallsFor("edit", g) = {})

\* An announced entry met an item with its narrative under another title.
C19_Witness ==
  /\ pc = "done"
  /\ \E i \in 1..Len(feedItems) :
       LET g == feedItems[i].guid
       IN /\ g \in DOMAIN loaded
          /\ loaded[g].slack_message_ts # Null
          /\ loaded[g].description_hash = hashDescription(feedItems[i].description)
          /\ loaded[g].title # feedItems[i].title
          /\ Cardinality(Occurrences(g)) = 1
          /\ Stored[g].title = loaded[g].title
          /\ calls = << >>

\* C20: a slack_message_ts that is not null in the file was already there, or
\* was returned by a postNewIncident call for that guid in the run that has
\* just saved the file; and a run with token and channel set makes no call
\* for a guid loaded with a null slack_message_ts, and leaves it null.
C20_MessageIdFromSend ==
  /\ [][\A g \in DOMAIN Stored' :
          Stored'[g].slack_message_ts # Null =>
             \/ /\ g \in DOMAIN Stored
                /\ Stored[g].slack_message_ts = Stored'[g].slack_message_ts
             \/ /\ pc' = "done"
                /\ \E k \in 1..Len(calls') :
                     /\ calls'[k].op = "send" /\ calls'[k].id = g
                     /\ ~calls'[k].threw
                     /\ calls'[k].ret = Stored'[g].slack_message_ts]_vars
  /\ []((Running /\ slack /\ channel) =>
          \A g \in DOMAIN loaded :
            loaded[g].slack_message_ts = Null =>
              /\ \A k \in 1..Len(calls) : calls[k].id # g
              /\ state[g].slack_message_ts = Null)

\* The only loaded entry was recorded by a dry run (its postNewIncident call
\* returned null); a later run with token and channel set saw its narrative
\* change and called nothing.
C20_Witness ==
  /\ pc = "done"
  /\ slack /\ channel
  /\ Cardinality(DOMAIN loaded) = 1
  /\ posted = << >>
  /\ calls = << >>
  /\ \E g \in DOMAIN loaded :
       /\ loaded[g].slack_message_ts = Null
       /\ Stored[g].description_hash # loaded[g].description_hash
       /\ Stored[g].slack_message_ts = Null

====
